---- MODULE Spec2Model ----
(***************************************************************************)
(* The file-operation engine of yazi-scheduler (src/file/file.rs): the     *)
(* task planner (paste, link, delete, trash), the leaf-operation executor  *)
(* (work), the priority dispatch queue macro_ and the progress channel     *)
(* prog.  Paths are sequences of components; every filesystem call is an   *)
(* environment choice over the results the call can return.                *)
(* File::remove_empty_dirs runs under PruneSpec and Notify::push           *)
(* (yazi-core, notify/commands/push.rs) under NotifySpec.                  *)
(***************************************************************************)
EXTENDS Integers, Sequences, FiniteSets, TLC

\* Largest configured TASKS.bizarre_retry explored (the setting is an input).
MaxRetry == 1

\* Most filesystem calls that fail (or sources that vanish) in one run.
MaxFaults == 2

\* The clock of Notify runs from 0 to MaxNow; at most MaxPushes calls of push.
MaxNow == 3
MaxPushes == 3

\* crate::{LOW, NORMAL}: the two priority tags used by this file.
LOW == 0
NORMAL == 1

VARIABLES
  fs,             \* the source tree: path -> entry
  bizarre_retry,  \* TASKS.bizarre_retry
  req,            \* the request handed to the planner
  plan,           \* the planner's position and locals
  macro_,         \* File.macro_: operations sent and not yet received
  prog,           \* File.prog: every progress event sent, in order
  hist,           \* history: every send, event and filesystem effect, in order
  faults,         \* filesystem calls that have failed so far
  prune,          \* a run of File::remove_empty_dirs: call stack, calls made, disk
  notify          \* Notify: the pending messages, the clock, the refresh signals

vars == <<fs, bizarre_retry, req, plan, macro_, prog, hist, faults, prune, notify>>

Last(s) == s[Len(s)]
Front(s) == SubSeq(s, 1, Len(s) - 1)

RECURSIVE SumSeq(_)
SumSeq(s) == IF s = <<>> THEN 0 ELSE Head(s) + SumSeq(Tail(s))

----------------------------------------------------------------------------
(* The filesystem the requests run against.                                *)

SrcRoot == <<"s", "a">>
DstRoot == <<"t", "b">>
PathF == <<"s", "a", "f">>
PathD == <<"s", "a", "d">>
PathL == <<"s", "a", "d", "l">>
PathO == <<"s", "a", "d", "o">>
PathE == <<"s", "a", "e">>
PathG == <<"s", "a", "e", "g">>

Dir(ents) == [kind |-> "dir", len |-> 0, ents |-> ents]
RegFile(n) == [kind |-> "file", len |-> n]
SymLink(n, tk, tn) == [kind |-> "symlink", len |-> n, tkind |-> tk, tlen |-> tn]
Other == [kind |-> "other", len |-> 0]

\* a/{d/{l -> file, o}, e/{g}}: a symlink, a fifo and a regular file in two
\* sibling directories.
TreeMixed ==
  (SrcRoot :> Dir(<<"d", "e">>)) @@
  (PathD :> Dir(<<"l", "o">>)) @@ (PathL :> SymLink(1, "file", 2)) @@ (PathO :> Other) @@
  (PathE :> Dir(<<"g">>)) @@ (PathG :> RegFile(1))

\* a/{f, d/{l}}: regular files only.
TreeFiles ==
  (SrcRoot :> Dir(<<"f", "d">>)) @@ (PathF :> RegFile(2)) @@
  (PathD :> Dir(<<"l">>)) @@ (PathL :> RegFile(1))

Trees == {TreeMixed, TreeFiles}

\* fs::symlink_metadata: the entry itself.
symlink_metadata(tree, path) == [kind |-> tree[path].kind, len |-> tree[path].len]

\* File::metadata: follow the link when asked and possible, else the entry.
metadata(tree, path, follow) ==
  IF follow /\ tree[path].kind = "symlink" /\ tree[path].tkind # "none"
  THEN [kind |-> tree[path].tkind, len |-> tree[path].tlen]
  ELSE symlink_metadata(tree, path)

\* The bytes fs::copy moves for a source path (it reads through a link).
CopyLen(tree, path) ==
  IF tree[path].kind = "symlink" THEN tree[path].tlen ELSE tree[path].len

\* calculate_size: the bytes under a path.
RECURSIVE calculate_size(_, _)
calculate_size(tree, path) ==
  IF tree[path].kind # "dir" THEN tree[path].len
  ELSE SumSeq([i \in 1..Len(tree[path].ents) |->
                 calculate_size(tree, Append(path, tree[path].ents[i]))])

----------------------------------------------------------------------------
(* Progress events (TaskProg) and history entries.                         *)

New(id, n) == [t |-> "New", id |-> id, files |-> 0, bytes |-> n, msg |-> ""]
Adv(id, f, n) == [t |-> "Adv", id |-> id, files |-> f, bytes |-> n, msg |-> ""]
Succ(id) == [t |-> "Succ", id |-> id, files |-> 0, bytes |-> 0, msg |-> ""]
Fail(id, m) == [t |-> "Fail", id |-> id, files |-> 0, bytes |-> 0, msg |-> m]
Log(id, m) == [t |-> "Log", id |-> id, files |-> 0, bytes |-> 0, msg |-> m]

\* self.prog.send(ev)
Send(ev) == [k |-> "prog", ev |-> ev]
\* self.macro_.send(op.into(), pri)
Enq(op, pri) == [k |-> "send", op |-> op, pri |-> pri]
\* a filesystem call that changed the disk (or tried to)
FsOp(call, path) == [k |-> "fs", call |-> call, path |-> path]

Events(eff) ==
  LET s == SelectSeq(eff, LAMBDA e : e.k = "prog")
  IN [i \in 1..Len(s) |-> s[i].ev]

Sends(eff) ==
  LET s == SelectSeq(eff, LAMBDA e : e.k = "send")
  IN [i \in 1..Len(s) |-> [op |-> s[i].op, pri |-> s[i].pri]]

----------------------------------------------------------------------------
(* Requests: the FileOp* values the scheduler hands to the planner.        *)

Ids == {1}

NoMeta == [kind |-> "none", len |-> 0]

FileOpPaste(id, from, to, cut, follow) ==
  [kind |-> "Paste", id |-> id, from |-> from, to |-> to, cut |-> cut,
   follow |-> follow, retry |-> 0]

FileOpLink(id, from, to, meta, resolve, relative, delete) ==
  [kind |-> "Link", id |-> id, from |-> from, to |-> to, meta |-> meta,
   resolve |-> resolve, relative |-> relative, delete |-> delete]

FileOpDelete(id, target) ==
  [kind |-> "Delete", id |-> id, target |-> target, length |-> 0]

FileOpTrash(id, target) ==
  [kind |-> "Trash", id |-> id, target |-> target, length |-> 0]

Leaves(tree) == {p \in DOMAIN tree : tree[p].kind # "dir"}

Requests(tree) ==
  {FileOpPaste(i, f, DstRoot, c, fl) :
     i \in Ids, f \in {SrcRoot} \cup Leaves(tree), c \in BOOLEAN, fl \in BOOLEAN}
  \cup {FileOpLink(i, PathL, DstRoot, m, rs, rl, d) :
     i \in Ids, m \in {NoMeta, symlink_metadata(tree, PathL)},
     rs \in BOOLEAN, rl \in BOOLEAN, d \in BOOLEAN}
  \cup {FileOpDelete(i, t) : i \in Ids, t \in {SrcRoot, PathL}}
  \cup {FileOpTrash(i, t) : i \in Ids, t \in {SrcRoot, PathL}}

\* FileOpPaste::to_link
to_link(task, meta) ==
  FileOpLink(task.id, task.from, task.to, meta, TRUE, FALSE, task.cut)

----------------------------------------------------------------------------
(* The planner.  A planner action returns its effects in program order;    *)
(* Apply sends them.                                                       *)

Apply(eff, nf) ==
  /\ faults + nf <= MaxFaults
  /\ faults' = faults + nf
  /\ prog' = prog \o Events(eff)
  /\ macro_' = macro_ \o Sends(eff)
  /\ hist' = hist \o eff
  /\ UNCHANGED <<prune, notify>>

Fault(r) == IF r \in {"err", "notfound"} THEN 1 ELSE 0

Idle(pc) == [pc |-> pc, task |-> req, root |-> <<>>, skip |-> 0, dirs |-> <<>>]

\* What one directory visit can meet: the result of create_dir ("ok", "exists"
\* or another error), of read_dir, how many entries next_entry yields before it
\* ends or errs, and the entries whose metadata cannot be read.
DirEnvs(n) ==
  {[cr |-> c, rd |-> r, n |-> k, bad |-> b] :
     c \in {"ok", "exists", "err"}, r \in {"ok", "err"}, k \in 0..n,
     b \in SUBSET (1..n)}

\* The calls of one directory visit that failed.
DirFaults(env, n) ==
  IF env.cr = "err" \/ env.rd = "err" THEN 1
  ELSE (IF env.n < n THEN 1 ELSE 0) + Cardinality(env.bad)

\* The visits told apart: a failed create_dir reads nothing, a failed read_dir
\* yields nothing.
DirEnvOk(env) ==
  /\ env.bad \subseteq 1..env.n
  /\ env.cr = "err" => env.rd = "ok"
  /\ (env.cr = "err" \/ env.rd = "err") => (env.n = 0 /\ env.bad = {})

\* An error arm that reports the failure without registering it first.
ContinueFailOnly(id) == <<Send(Fail(id, "An error occurred while pasting"))>>

\* continue_unless_ok!: the error arm.
ContinueUnlessOk(id) == <<Send(New(id, 0)), Send(Fail(id, "An error occurred while pasting"))>>

\* The tier a paste entry is sent with.
PasteFileTier == LOW
PasteLinkTier == NORMAL

\* paste, the non-directory arm and the body of the entry loop after the
\* destination is known: New, then one send for a file or a symlink.
PasteSchedule(task, meta) ==
  <<Send(New(task.id, meta.len))>> \o
  (IF meta.kind = "file" THEN <<Enq(task, PasteFileTier)>>
   ELSE IF meta.kind = "symlink" THEN <<Enq(to_link(task, meta), PasteLinkTier)>>
   ELSE <<>>)

\* A paste that takes a vanished source for a failed rename.
RenameFastPathOkOnly(rn) == rn = "ok"

\* Whether the rename's result ends paste at once.
RenameFastPath(rn) == rn \in {"ok", "notfound"}

\* A paste that renames only what is not a directory.
RenameAttemptedNonDir(task) == task.cut /\ fs[task.from].kind # "dir"

\* Whether paste tries fs::rename first.
RenameAttempted(task) == task.cut

\* paste up to the directory walk.
PasteStart ==
  /\ plan.pc = "new" /\ req.kind = "Paste"
  /\ \E rn \in (IF RenameAttempted(req) THEN {"ok", "notfound", "err"} ELSE {"skip"}),
        mt \in {"ok", "err"} :
       LET task == req
           meta == metadata(fs, task.from, task.follow)
           rne == IF RenameAttempted(task) THEN <<FsOp("rename_" \o rn, task.from)>>
                  ELSE <<>>
       IN IF RenameFastPath(rn)
          THEN plan' = Idle("done") /\ Apply(rne \o <<Send(Succ(task.id))>>, 0)
          ELSE IF mt = "err"
          THEN plan' = Idle("err") /\ Apply(rne, 1)
          ELSE IF meta.kind # "dir"
          THEN /\ plan' = Idle("done")
               /\ Apply(rne \o PasteSchedule(task, meta) \o <<Send(Succ(task.id))>>, 0)
          ELSE /\ plan' = [pc |-> "paste", task |-> task, root |-> task.to,
                           skip |-> Len(task.from), dirs |-> <<task.from>>]
               /\ Apply(rne, 0)
  /\ UNCHANGED <<fs, bizarre_retry, req>>

\* root.join(src.components().skip(skip))
MirrorDest(root, src, skip) == root \o SubSeq(src, skip + 1, Len(src))

\* Where a sub-directory met in the paste walk goes in the pending queue.
PastePush(dirs, src) == Append(dirs, src)

\* One entry of the paste walk: st = [task, dirs, eff].
PasteEntry(st, src, dest, bad, follow) ==
  IF bad
  THEN [st EXCEPT !.eff = @ \o <<FsOp("metadata_err", src)>> \o ContinueUnlessOk(st.task.id)]
  ELSE LET meta == metadata(fs, src, follow)
           task == [st.task EXCEPT !.to = Append(dest, Last(src)), !.from = src]
           rd == <<FsOp("metadata_ok", src)>>
       IN IF meta.kind = "dir"
          THEN [st EXCEPT !.dirs = PastePush(@, src), !.eff = @ \o rd]
          ELSE [st EXCEPT !.task = task, !.eff = @ \o rd \o PasteSchedule(task, meta)]

RECURSIVE PasteEntries(_, _, _, _, _)
PasteEntries(st, src, dest, env, i) ==
  IF i > env.n THEN st
  ELSE PasteEntries(
         PasteEntry(st, Append(src, fs[src].ents[i]), dest, i \in env.bad, st.task.follow),
         src, dest, env, i + 1)

\* A walk that reads a directory whatever create_dir returned.
PasteReadsAlways(env) == TRUE

\* Whether a directory whose destination could not be created is still read.
PasteReadsAfterCreate(env) == env.cr # "err"

\* One turn of `while let Some(src) = dirs.pop_front()`.
PasteVisit(st, env) ==
  LET src == Head(st.dirs)
      dest == MirrorDest(st.root, src, st.skip)
      st1 == [task |-> st.task, dirs |-> Tail(st.dirs), eff |-> <<>>]
      mk == <<FsOp(IF env.cr = "err" THEN "create_dir_err" ELSE "create_dir", dest)>>
  IN IF ~PasteReadsAfterCreate(env)
     THEN [st1 EXCEPT !.eff = mk \o ContinueUnlessOk(st.task.id)]
     ELSE IF env.rd = "err"
     THEN [st1 EXCEPT !.eff = mk \o <<FsOp("read_dir_err", src)>> \o ContinueUnlessOk(st.task.id)]
     ELSE PasteEntries([st1 EXCEPT !.eff = mk \o <<FsOp("read_dir_ok", src)>>],
                       src, dest, env, 1)

\* What paste sends once the queue of pending directories is drained.
PasteEnd(id) == <<Send(Succ(id))>>

PasteDir ==
  /\ plan.pc = "paste"
  /\ \E env \in DirEnvs(Len(fs[Head(plan.dirs)].ents)) :
       /\ DirEnvOk(env)
       /\ LET r == PasteVisit(plan, env)
              done == r.dirs = <<>>
          IN /\ plan' = [plan EXCEPT !.pc = IF done THEN "done" ELSE "paste",
                                     !.task = r.task, !.dirs = r.dirs]
             /\ Apply(r.eff \o (IF done THEN PasteEnd(r.task.id) ELSE <<>>),
                      DirFaults(env, Len(fs[Head(plan.dirs)].ents)))
  /\ UNCHANGED <<fs, bizarre_retry, req>>

\* link: read the metadata if the request has none, New, one send, Succ.
LinkTier == NORMAL

Link ==
  /\ plan.pc = "new" /\ req.kind = "Link"
  /\ \E mt \in {"ok", "err"} :
       LET task == IF req.meta = NoMeta
                   THEN [req EXCEPT !.meta = symlink_metadata(fs, req.from)]
                   ELSE req
       IN IF req.meta = NoMeta /\ mt = "err"
          THEN plan' = Idle("err") /\ Apply(<<>>, 1)
          ELSE /\ plan' = Idle("done")
               /\ Apply(<<Send(New(task.id, task.meta.len)), Enq(task, LinkTier),
                          Send(Succ(task.id))>>, 0)
  /\ UNCHANGED <<fs, bizarre_retry, req>>

DeleteTier == NORMAL

\* A delete that sends the operation before it registers its bytes.
DeleteScheduleSendFirst(task, meta) ==
  LET t == [task EXCEPT !.length = meta.len]
  IN <<Enq(t, DeleteTier), Send(New(t.id, meta.len))>>

\* delete: New, then the send of one DeleteEntry.
DeleteSchedule(task, meta) ==
  LET t == [task EXCEPT !.length = meta.len]
  IN <<Send(New(t.id, meta.len)), Enq(t, DeleteTier)>>

\* delete up to the directory walk.
DeleteStart ==
  /\ plan.pc = "new" /\ req.kind = "Delete"
  /\ \E mt \in {"ok", "err"} :
       LET meta == symlink_metadata(fs, req.target)
       IN IF mt = "err"
          THEN plan' = Idle("err") /\ Apply(<<>>, 1)
          ELSE IF meta.kind # "dir"
          THEN /\ plan' = Idle("done")
               /\ Apply(DeleteSchedule(req, meta) \o <<Send(Succ(req.id))>>, 0)
          ELSE /\ plan' = [pc |-> "delete", task |-> req, root |-> <<>>, skip |-> 0,
                           dirs |-> <<req.target>>]
               /\ Apply(<<>>, 0)
  /\ UNCHANGED <<fs, bizarre_retry, req>>

\* Where a sub-directory met in the delete walk goes in the pending list.
DeletePush(dirs, path) == <<path>> \o dirs

\* A delete walk that takes directories for entries to remove.
DeleteTakesAll(meta) == TRUE

\* Whether the delete walk turns an entry into a DeleteEntry.
DeleteTakes(meta) == meta.kind # "dir"

\* One entry of the delete walk: st = [task, dirs, eff].
DeleteEntry(st, path, bad) ==
  IF bad THEN [st EXCEPT !.eff = @ \o <<FsOp("metadata_err", path)>>]
  ELSE LET meta == symlink_metadata(fs, path)
           task == [st.task EXCEPT !.target = path, !.length = meta.len]
           rd == <<FsOp("metadata_ok", path)>>
       IN IF ~DeleteTakes(meta)
          THEN [st EXCEPT !.dirs = DeletePush(@, path), !.eff = @ \o rd]
          ELSE [st EXCEPT !.task = task, !.eff = @ \o rd \o DeleteSchedule(task, meta)]

RECURSIVE DeleteEntries(_, _, _, _)
DeleteEntries(st, target, env, i) ==
  IF i > env.n THEN st
  ELSE DeleteEntries(DeleteEntry(st, Append(target, fs[target].ents[i]), i \in env.bad),
                     target, env, i + 1)

\* A delete walk that reports an unlistable directory the way paste does.
DeleteListFailedReports(id) ==
  <<Send(New(id, 0)), Send(Fail(id, "An error occurred while deleting"))>>

\* What the delete walk sends for a directory it cannot list: `continue`.
DeleteListFailed(id) == <<>>

\* One turn of `while let Some(target) = dirs.pop_front()`.
DeleteVisit(st, env) ==
  LET target == Head(st.dirs)
      st1 == [task |-> st.task, dirs |-> Tail(st.dirs), eff |-> <<>>]
  IN IF env.rd = "err"
     THEN [st1 EXCEPT !.eff = <<FsOp("read_dir_err", target)>> \o DeleteListFailed(st.task.id)]
     ELSE DeleteEntries([st1 EXCEPT !.eff = <<FsOp("read_dir_ok", target)>>],
                        target, env, 1)

DeleteDir ==
  /\ plan.pc = "delete"
  /\ \E env \in DirEnvs(Len(fs[Head(plan.dirs)].ents)) :
       /\ DirEnvOk(env) /\ env.cr = "ok"
       /\ LET r == DeleteVisit(plan, env)
              done == r.dirs = <<>>
          IN /\ plan' = [plan EXCEPT !.pc = IF done THEN "done" ELSE "delete",
                                     !.task = r.task, !.dirs = r.dirs]
             /\ Apply(r.eff \o (IF done THEN <<Send(Succ(r.task.id))>> ELSE <<>>),
                      DirFaults(env, Len(fs[Head(plan.dirs)].ents)))
  /\ UNCHANGED <<fs, bizarre_retry, req>>

TrashTier == LOW

\* trash: the size, New, one send, Succ.
Trash ==
  /\ plan.pc = "new" /\ req.kind = "Trash"
  /\ LET task == [req EXCEPT !.length = calculate_size(fs, req.target)]
     IN /\ plan' = Idle("done")
        /\ Apply(<<Send(New(task.id, task.length)), Enq(task, TrashTier),
                   Send(Succ(task.id))>>, 0)
  /\ UNCHANGED <<fs, bizarre_retry, req>>

----------------------------------------------------------------------------
(* The dispatch queue and the executor.                                    *)

\* The entries a consumer may receive next: those of the highest tier present.
\* Which of two entries of one tier comes first is the channel's own affair
\* (async_priority_channel), so every one of them is possible.
RecvChoices(q) ==
  {i \in 1..Len(q) : \A j \in 1..Len(q) : q[j].pri <= q[i].pri}

Remove(q, i) == SubSeq(q, 1, i - 1) \o SubSeq(q, i + 1, Len(q))

\* copy_with_progress: the results the stream delivers for a source of n
\* bytes: byte counts, then Ok(0) after all n bytes or an error after some.
RECURSIVE Compositions(_)
Compositions(n) ==
  IF n = 0 THEN {<<>>}
  ELSE UNION {{<<k>> \o c : c \in Compositions(n - k)} : k \in 1..n}

CopyErrors == {"ENOENT", "EPERM", "ENOATTR", "EIO"}

copy_with_progress(n) ==
  {[chunks |-> c, end |-> "eof"] : c \in Compositions(n)}
  \cup {[chunks |-> c, end |-> e] :
          c \in UNION {Compositions(m) : m \in 0..n}, e \in CopyErrors}

\* io::Error::kind() and raw_os_error() of the errors met.
IsNotFound(e) == e = "ENOENT"
raw_os_error(e) ==
  CASE e = "EPERM" -> 1 [] e = "ENOENT" -> 2 [] e = "EIO" -> 5 [] e = "ENOATTR" -> 93

\* A guard that lets one retry too many through.
RetryGuardInclusive(task, e) ==
  task.retry <= bizarre_retry /\ raw_os_error(e) \in {1, 93}

\* The retry arm's guard.
RetryGuard(task, e) ==
  task.retry < bizarre_retry /\ raw_os_error(e) \in {1, 93}

\* A retry sent at the elevated tier.
RetryTierElevated == NORMAL

\* A retry that forgets to count itself.
RetryTaskSame(task) == task

\* The retry arm: the log line, the counter, the send.
RetryTier == LOW
RetryTask(task) == [task EXCEPT !.retry = @ + 1]
\* A retry arm that leaves the loop instead of returning.
RetryFallsThrough(task) ==
  <<Send(Log(task.id, "Paste task retry")), Enq(RetryTask(task), RetryTier),
    Send(Adv(task.id, 1, 0))>>

Retry(task) ==
  <<Send(Log(task.id, "Paste task retry")), Enq(RetryTask(task), RetryTier)>>

\* What the Ok(0) arm does before leaving the loop.
PasteFinish(task) ==
  IF task.cut THEN <<FsOp("remove_file", task.from)>> ELSE <<>>

\* A not-found arm that shares the clean-up of the Ok(0) arm.
PasteVanishedRemoves(task) ==
  IF task.cut THEN <<FsOp("remove_file", task.from)>> ELSE <<>>

\* What the not-found arm does before leaving the loop (a tracing warn! only).
PasteVanished(task) == <<>>

\* work, FileOp::Paste: [eff, res].
WorkPasteOp(task, env) ==
  LET rm == <<FsOp(IF env.rm = "err" THEN "remove_file_err" ELSE "remove_file", task.to)>>
      adv == [i \in 1..Len(env.stream.chunks) |->
                Send(Adv(task.id, 0, env.stream.chunks[i]))]
      e == env.stream.end
      fin == <<Send(Adv(task.id, 1, 0))>>
  IN IF env.rm = "err" THEN [eff |-> rm, res |-> "err", end |-> "remove_file"]
     ELSE IF e = "eof"
     THEN [eff |-> rm \o adv \o PasteFinish(task) \o fin, res |-> "ok", end |-> e]
     ELSE IF IsNotFound(e)
     THEN [eff |-> rm \o adv \o PasteVanished(task) \o fin, res |-> "ok", end |-> e]
     ELSE IF RetryGuard(task, e)
     THEN [eff |-> rm \o adv \o Retry(task), res |-> "ok", end |-> e]
     ELSE [eff |-> rm \o adv, res |-> "err", end |-> e]

\* work, FileOp::Link: [eff, res].
WorkLinkOp(task, env) ==
  LET adv == <<Send(Adv(task.id, 1, task.meta.len))>>
      rm == <<FsOp(IF env.rm = "err" THEN "remove_file_err" ELSE "remove_file", task.to)>>
  IN IF task.resolve /\ env.rl = "notfound"
     THEN [eff |-> <<Send(Log(task.id, "Link task partially done"))>> \o adv,
           res |-> "ok", end |-> "read_link_notfound"]
     ELSE IF task.resolve /\ env.rl = "err"
     THEN [eff |-> <<>>, res |-> "err", end |-> "read_link"]
     ELSE IF task.relative /\ env.cn = "err"
     THEN [eff |-> <<>>, res |-> "err", end |-> "canonicalize"]
     ELSE IF env.rm = "err" THEN [eff |-> rm, res |-> "err", end |-> "remove_file"]
     ELSE IF env.sl = "err"
     THEN [eff |-> rm \o <<FsOp("symlink_err", task.to)>>, res |-> "err", end |-> "symlink"]
     ELSE [eff |-> rm \o <<FsOp("symlink_ok", task.to)>>
                    \o (IF task.delete THEN <<FsOp("remove_file", task.from)>> ELSE <<>>)
                    \o adv,
           res |-> "ok", end |-> "done"]

\* A removal that does not tolerate a target already gone.
DeleteFatalAlways(rm, sm) == rm # "ok"

\* Whether a failed removal is fatal: sm is whether symlink_metadata still
\* finds the target.
DeleteFatal(rm, sm) == rm = "err" /\ sm = "ok"

\* work, FileOp::Delete: [eff, res].
WorkDeleteOp(task, env) ==
  LET rm == <<FsOp("remove_file_" \o env.rm, task.target)>>
  IN IF env.rm # "ok" /\ DeleteFatal(env.rm, env.sm)
     THEN [eff |-> rm \o <<Send(Fail(task.id, "Delete task failed"))>>,
           res |-> "err", end |-> env]
     ELSE [eff |-> rm \o <<Send(Adv(task.id, 1, task.length))>>,
           res |-> "ok", end |-> env]

\* work, FileOp::Trash: [eff, res].
WorkTrashOp(task, env) ==
  IF env.rm = "err"
  THEN [eff |-> <<FsOp("trash_err", task.target)>>, res |-> "err", end |-> "trash"]
  ELSE [eff |-> <<FsOp("trash_ok", task.target), Send(Adv(task.id, 1, task.length))>>,
        res |-> "ok", end |-> "done"]

\* The results the filesystem calls of one work() can have.
WorkEnvs(op) ==
  CASE op.kind = "Paste" ->
         {[rm |-> r, stream |-> s] :
            r \in {"ok", "notfound", "err"}, s \in copy_with_progress(CopyLen(fs, op.from))}
    [] op.kind = "Link" ->
         {[rl |-> a, cn |-> b, rm |-> c, sl |-> d] :
            a \in (IF op.resolve THEN {"ok", "notfound", "err"} ELSE {"skip"}),
            b \in (IF op.relative THEN {"ok", "err"} ELSE {"skip"}),
            c \in {"ok", "notfound", "err"}, d \in {"ok", "err"}}
    [] op.kind = "Delete" ->
         {[rm |-> r, sm |-> m] : r \in {"ok", "notfound", "err"}, m \in {"ok", "err"}}
    [] op.kind = "Trash" -> {[rm |-> r] : r \in {"ok", "err"}}

\* The consumer of macro_: what it sends when work() returns an error.
WorkFailed(op, res) ==
  IF res = "err" THEN <<Send(Fail(op.id, "Failed to work on this task"))>> ELSE <<>>

Recv(op, pri) == [k |-> "recv", op |-> op, pri |-> pri]
Ret(op, r) == [k |-> "ret", op |-> op, end |-> r.end, res |-> r.res]

\* The calls of one work() that failed, those it never reached left out.
WorkFaults(op, env) ==
  CASE op.kind = "Paste" ->
         IF env.rm = "err" THEN 1 ELSE (IF env.stream.end = "eof" THEN 0 ELSE 1)
    [] op.kind = "Link" ->
         IF Fault(env.rl) = 1 THEN 1
         ELSE IF env.cn = "err" THEN 1
         ELSE IF env.rm = "err" THEN 1
         ELSE Fault(env.sl)
    [] op.kind = "Delete" -> Fault(env.rm)
    [] op.kind = "Trash" -> Fault(env.rm)

\* The results told apart: calls after the first failure are not made.
WorkEnvOk(op, env) ==
  CASE op.kind = "Paste" -> env.rm = "err" => env.stream = [chunks |-> <<>>, end |-> "eof"]
    [] op.kind = "Link" ->
         /\ Fault(env.rl) = 1 => (env.cn \in {"ok", "skip"} /\ env.rm = "ok" /\ env.sl = "ok")
         /\ env.cn = "err" => (env.rm = "ok" /\ env.sl = "ok")
         /\ env.rm = "err" => env.sl = "ok"
    [] op.kind = "Delete" -> env.rm = "ok" => env.sm = "err"
    [] op.kind = "Trash" -> TRUE

\* One consumer turn: receive, run work() on the operation, report an error.
Consume(i, r, op, pri, env) ==
  LET eff == <<Recv(op, pri)>> \o r.eff \o <<Ret(op, r)>> \o WorkFailed(op, r.res)
  IN /\ WorkEnvOk(op, env)
     /\ faults + WorkFaults(op, env) <= MaxFaults
     /\ faults' = faults + WorkFaults(op, env)
     /\ prog' = prog \o Events(eff)
     /\ macro_' = Remove(macro_, i) \o Sends(eff)
     /\ hist' = hist \o eff
     /\ UNCHANGED <<fs, bizarre_retry, req, plan, prune, notify>>

WorkPaste ==
  \E i \in RecvChoices(macro_) :
    /\ macro_[i].op.kind = "Paste"
    /\ \E env \in WorkEnvs(macro_[i].op) :
         Consume(i, WorkPasteOp(macro_[i].op, env), macro_[i].op, macro_[i].pri, env)

WorkLink ==
  \E i \in RecvChoices(macro_) :
    /\ macro_[i].op.kind = "Link"
    /\ \E env \in WorkEnvs(macro_[i].op) :
         Consume(i, WorkLinkOp(macro_[i].op, env), macro_[i].op, macro_[i].pri, env)

WorkDelete ==
  \E i \in RecvChoices(macro_) :
    /\ macro_[i].op.kind = "Delete"
    /\ \E env \in WorkEnvs(macro_[i].op) :
         Consume(i, WorkDeleteOp(macro_[i].op, env), macro_[i].op, macro_[i].pri, env)

WorkTrash ==
  \E i \in RecvChoices(macro_) :
    /\ macro_[i].op.kind = "Trash"
    /\ \E env \in WorkEnvs(macro_[i].op) :
         Consume(i, WorkTrashOp(macro_[i].op, env), macro_[i].op, macro_[i].pri, env)

----------------------------------------------------------------------------
(* File::remove_empty_dirs, one call of the recursion per stack frame.     *)

PruneRoot == <<"r">>
PruneX == <<"r", "x">>
PruneZ == <<"r", "x", "z">>
PruneK == <<"r", "k">>
PruneY == <<"r", "y">>

\* r/{x/{z}, k, y}: directories x, z, y and a file k between them.
PruneTree ==
  (PruneRoot :> Dir(<<"x", "k", "y">>)) @@ (PruneX :> Dir(<<"z">>)) @@
  (PruneZ :> Dir(<<>>)) @@ (PruneK :> RegFile(1)) @@ (PruneY :> Dir(<<>>))

\* r/{y, x/{z}}: directories only.
PruneTreeDirs ==
  (PruneRoot :> Dir(<<"y", "x">>)) @@ (PruneX :> Dir(<<"z">>)) @@
  (PruneZ :> Dir(<<>>)) @@ (PruneY :> Dir(<<>>))

PruneTrees == {PruneTree, PruneTreeDirs}

\* A call of remove_empty_dirs(dir) about to run fs::read_dir.
PruneCall(dir) == [dir |-> dir, pc |-> "list", n |-> 0, i |-> 1]

PruneOff == [tree |-> PruneTreeDirs, stack |-> <<>>, log |-> <<>>, gone |-> {}, faults |-> 0]
NotifyOff == [messages |-> <<>>, now |-> 0, emits |-> 0, pushes |-> <<>>]

\* An error that goes up the whole recursion.
PruneReturnAll(stack) == <<>>

\* `return`: the call ends, its caller goes on.
PruneReturn(stack) == Front(stack)

PruneStep(stack, eff, nf) ==
  /\ prune.faults + nf <= MaxFaults
  /\ prune' = [prune EXCEPT !.stack = stack, !.log = @ \o eff, !.faults = @ + nf]
  /\ UNCHANGED <<fs, bizarre_retry, req, plan, macro_, prog, hist, faults, notify>>

\* fs::read_dir(dir): on an error the call returns; else the listing yields
\* its first n entries (all of them unless next_entry errs).
PruneList ==
  /\ prune.stack # <<>> /\ Last(prune.stack).pc = "list"
  /\ LET f == Last(prune.stack)
     IN \E rd \in {"ok", "err"}, n \in 0..Len(prune.tree[f.dir].ents) :
          IF rd = "err"
          THEN /\ n = 0
               /\ PruneStep(PruneReturn(prune.stack), <<FsOp("read_dir_err", f.dir)>>, 1)
          ELSE PruneStep([prune.stack EXCEPT ![Len(prune.stack)] =
                            [f EXCEPT !.pc = "loop", !.n = n]],
                         <<FsOp("read_dir_ok", f.dir)>>,
                         IF n < Len(prune.tree[f.dir].ents) THEN 1 ELSE 0)

\* One turn of `while let Ok(Some(entry)) = it.next_entry()`: the loop ends,
\* or the entry is skipped, or the call recurses into it.
PruneEntry ==
  /\ prune.stack # <<>> /\ Last(prune.stack).pc = "loop"
  /\ LET f == Last(prune.stack)
         top == Len(prune.stack)
         ents == prune.tree[f.dir].ents
     IN IF f.i > f.n
        THEN PruneStep([prune.stack EXCEPT ![top] = [f EXCEPT !.pc = "last"]],
                       IF f.n < Len(ents) THEN <<FsOp("next_entry_err", f.dir)>> ELSE <<>>,
                       0)
        ELSE LET path == Append(f.dir, ents[f.i])
             IN \E ft \in {"ok", "err"} :
                  IF ft = "ok" /\ prune.tree[path].kind = "dir"
                  THEN PruneStep(Append([prune.stack EXCEPT ![top] = [f EXCEPT !.pc = "after"]],
                                        PruneCall(path)),
                                 <<FsOp("file_type_ok", path)>>, 0)
                  ELSE PruneStep([prune.stack EXCEPT ![top] = [f EXCEPT !.i = @ + 1]],
                                 <<FsOp("file_type_" \o ft, path)>>, Fault(ft))

\* fs::remove_dir(path).ok(): an error changes nothing but the disk.
PruneRemove(stack, path) ==
  \E rm \in (IF path \in prune.gone THEN {"err"} ELSE {"ok", "err"}) :
    /\ prune.faults + Fault(rm) <= MaxFaults
    /\ prune' = [prune EXCEPT !.stack = stack,
                              !.log = Append(@, FsOp("remove_dir_" \o rm, path)),
                              !.gone = IF rm = "ok" THEN @ \cup {path} ELSE @,
                              !.faults = IF path \in prune.gone THEN @ ELSE @ + Fault(rm)]
    /\ UNCHANGED <<fs, bizarre_retry, req, plan, macro_, prog, hist, faults, notify>>

\* The recursion has returned: remove the sub-directory, go on with the loop.
PruneAfter ==
  /\ prune.stack # <<>> /\ Last(prune.stack).pc = "after"
  /\ LET f == Last(prune.stack)
     IN PruneRemove([prune.stack EXCEPT ![Len(prune.stack)] =
                       [f EXCEPT !.pc = "loop", !.i = @ + 1]],
                    Append(f.dir, prune.tree[f.dir].ents[f.i]))

\* After the loop: remove the directory of this call and return.
PruneLast ==
  /\ prune.stack # <<>> /\ Last(prune.stack).pc = "last"
  /\ PruneRemove(Front(prune.stack), Last(prune.stack).dir)

PruneInit ==
  /\ fs = TreeFiles
  /\ req = FileOpDelete(1, SrcRoot)
  /\ bizarre_retry = MaxRetry
  /\ plan = Idle("off")
  /\ macro_ = <<>>
  /\ prog = <<>>
  /\ hist = <<>>
  /\ faults = 0
  /\ notify = NotifyOff
  /\ \E t \in PruneTrees :
       prune = [tree |-> t, stack |-> <<PruneCall(PruneRoot)>>, log |-> <<>>,
                gone |-> {}, faults |-> 0]

PruneNext == PruneList \/ PruneEntry \/ PruneAfter \/ PruneLast

PruneSpec == PruneInit /\ [][PruneNext]_vars

----------------------------------------------------------------------------
(* Notify::push (yazi-core, notify/commands/push.rs).                      *)

\* What callers hand to push: a value that converts, with its timeout, or
\* one that does not.
Unconvertible == [ok |-> FALSE, timeout |-> 0]
NotifyInputs == {Unconvertible} \cup {[ok |-> TRUE, timeout |-> t] : t \in {1, 2}}

\* msg.try_into(): a Message created at the instant of the conversion.
try_into(v, now) ==
  [ok |-> v.ok, msg |-> [timeout |-> v.timeout, instant |-> now]]

\* An extension counted from the newest pending message.
ElapsedSinceLast(messages, instant) ==
  instant - (IF messages = <<>> THEN instant ELSE Last(messages).instant)

\* instant - self.messages.first().map_or(instant, |m| m.instant)
Elapsed(messages, instant) ==
  instant - (IF messages = <<>> THEN instant ELSE Head(messages).instant)

NotifyUnchanged == UNCHANGED <<fs, bizarre_retry, req, plan, macro_, prog, hist, faults, prune>>

\* push(msg): the clock may move between the conversion and Instant::now().
NotifyPush ==
  /\ Len(notify.pushes) < MaxPushes
  /\ \E v \in NotifyInputs, d \in 0..1 :
       LET conv == try_into(v, notify.now)
           instant == notify.now + d
           msg == [conv.msg EXCEPT !.timeout = @ + Elapsed(notify.messages, instant)]
       IN IF ~conv.ok
          THEN /\ d = 0
               /\ notify' = [notify EXCEPT
                               !.pushes = Append(@, [v |-> v, instant |-> notify.now])]
          ELSE /\ instant <= MaxNow
               /\ notify' = [notify EXCEPT
                               !.messages = Append(@, msg),
                               !.now = instant,
                               !.emits = @ + 1,
                               !.pushes = Append(@, [v |-> v, instant |-> instant])]
  /\ NotifyUnchanged

\* Time passes between two calls.
NotifyTick ==
  /\ notify.now < MaxNow
  /\ notify' = [notify EXCEPT !.now = @ + 1]
  /\ NotifyUnchanged

NotifyInit ==
  /\ fs = TreeFiles
  /\ req = FileOpDelete(1, SrcRoot)
  /\ bizarre_retry = MaxRetry
  /\ plan = Idle("off")
  /\ macro_ = <<>>
  /\ prog = <<>>
  /\ hist = <<>>
  /\ faults = 0
  /\ prune = PruneOff
  /\ notify = NotifyOff

NotifyNext == NotifyPush \/ NotifyTick

NotifySpec == NotifyInit /\ [][NotifyNext]_vars

----------------------------------------------------------------------------
Init ==
  /\ fs \in Trees
  /\ req \in Requests(fs)
  /\ bizarre_retry \in (IF req.kind = "Paste" THEN 0..MaxRetry ELSE {MaxRetry})
  /\ plan = Idle("new")
  /\ macro_ = <<>>
  /\ prog = <<>>
  /\ hist = <<>>
  /\ faults = 0
  /\ prune = PruneOff
  /\ notify = NotifyOff

Next ==
  \/ PasteStart \/ PasteDir \/ Link \/ DeleteStart \/ DeleteDir \/ Trash
  \/ WorkPaste \/ WorkLink \/ WorkDelete \/ WorkTrash

Spec == Init /\ [][Next]_vars
----------------------------------------------------------------------------
(* Reading the history.                                                    *)

Hx == 1..Len(hist)
IsEv(i, t) == hist[i].k = "prog" /\ hist[i].ev.t = t
IsFs(i, call) == hist[i].k = "fs" /\ hist[i].call = call
IsSend(i, kind) == hist[i].k = "send" /\ hist[i].op.kind = kind
IsRet(i, kind) == hist[i].k = "ret" /\ hist[i].op.kind = kind
IsPrefix(a, b) == Len(a) <= Len(b) /\ SubSeq(b, 1, Len(a)) = a
Range(q) == {q[i] : i \in 1..Len(q)}

\* The planner has returned and nothing sent for the id is still queued.
Terminated(id) ==
  /\ plan.pc \in {"done", "err"}
  /\ \A i \in 1..Len(macro_) : macro_[i].op.id # id

SumBytes(t, id) ==
  LET s == SelectSeq(prog, LAMBDA e : e.t = t /\ e.id = id)
  IN SumSeq([i \in 1..Len(s) |-> s[i].bytes])

CountEv(t, id) == Len(SelectSeq(prog, LAMBDA e : e.t = t /\ e.id = id))

\* The request is a paste of a directory that went into the walk.
PasteWalk ==
  /\ req.kind = "Paste"
  /\ \E i \in Hx : hist[i].k = "fs" /\ hist[i].call \in {"create_dir", "create_dir_err"}

----------------------------------------------------------------------------
(* C1: for every task id, once every leaf operation sent for it has        *)
(* ended without a failure being reported, the bytes of its Adv events add *)
(* up to the bytes of its New events (retried and vanished-source          *)
(* operations included).                                                   *)
C1_AdvBytesEqualNewBytes ==
  \A id \in Ids :
    (Terminated(id) /\ CountEv("Fail", id) = 0)
      => SumBytes("Adv", id) = SumBytes("New", id)

----------------------------------------------------------------------------
(* A PasteChunk and its re-sends share their destination.                  *)

Chains == {hist[i].op.to : i \in {j \in Hx : IsSend(j, "Paste")}}
Attempts(c) == {i \in Hx : IsRet(i, "Paste") /\ hist[i].op.to = c}
Resends(c) == {i \in Hx : IsSend(i, "Paste") /\ hist[i].op.to = c /\ hist[i].op.retry > 0}
ChainDone(c) ==
  /\ Attempts(c) # {}
  /\ \A i \in 1..Len(macro_) : ~(macro_[i].op.kind = "Paste" /\ macro_[i].op.to = c)
OnlyEPERM(c) == \A i \in Attempts(c) : hist[i].end = "EPERM"
WorkFails(c) ==
  {i \in Hx : /\ IsEv(i, "Fail") /\ i > 1
              /\ IsRet(i - 1, "Paste") /\ hist[i - 1].op.to = c}

(* C2: a PasteChunk whose copy fails with OS error 1 on every attempt is   *)
(* attempted bizarre_retry + 1 times, re-sent bizarre_retry times, ends in *)
(* exactly one Fail, and its retry counter reads bizarre_retry at the      *)
(* failing attempt.                                                        *)
C2_RetryExhaustion ==
  \A c \in Chains :
    (ChainDone(c) /\ OnlyEPERM(c)) =>
      /\ Cardinality(Attempts(c)) = bizarre_retry + 1
      /\ Cardinality(Resends(c)) = bizarre_retry
      /\ Cardinality(WorkFails(c)) = 1
      /\ \A i \in Attempts(c) :
           hist[i].res = "err" <=> hist[i].op.retry = bizarre_retry
      /\ fs[req.from].kind # "dir" => CountEv("Fail", req.id) = 1

C2_Witness ==
  \E c \in Chains : ChainDone(c) /\ OnlyEPERM(c) /\ bizarre_retry = MaxRetry

----------------------------------------------------------------------------
DeleteSends(p) == {i \in Hx : IsSend(i, "Delete") /\ hist[i].op.target = p}
Listed(d) == \E i \in Hx : IsFs(i, "read_dir_ok") /\ hist[i].path = d
MetaRead(p) == \E i \in Hx : IsFs(i, "metadata_ok") /\ hist[i].path = p
DeleteOfFilesTree ==
  /\ req.kind = "Delete" /\ fs[req.target].kind = "dir"
  /\ \A p \in DOMAIN fs : fs[p].kind \in {"dir", "file"}

(* C3 as stated: after delete() of a tree of directories and regular      *)
(* files, every file of every listed directory has exactly one            *)
(* DeleteEntry and no directory has one.                                  *)
C3_OnePerListedFile ==
  (DeleteOfFilesTree /\ plan.pc = "done") =>
    \A p \in DOMAIN fs :
      /\ (fs[p].kind = "file" /\ Listed(Front(p))) => Cardinality(DeleteSends(p)) = 1
      /\ fs[p].kind = "dir" => DeleteSends(p) = {}

(* C3 amended: delete() of such a tree sends exactly one DeleteEntry for   *)
(* every file the listing yields and whose metadata is read, none for any  *)
(* other file, and none for a directory.                                   *)
C3_OnePerReadFile ==
  DeleteOfFilesTree =>
    \A p \in DOMAIN fs :
      /\ fs[p].kind = "file" =>
           Cardinality(DeleteSends(p)) = (IF MetaRead(p) THEN 1 ELSE 0)
      /\ fs[p].kind = "dir" => DeleteSends(p) = {}

C3_Witness ==
  /\ DeleteOfFilesTree /\ plan.pc = "done"
  /\ \A p \in DOMAIN fs : fs[p].kind = "file" => Cardinality(DeleteSends(p)) = 1
  /\ MetaRead(PathD)

----------------------------------------------------------------------------
RenameEnded ==
  /\ req.kind = "Paste" /\ req.cut /\ fs[req.from].kind = "file"
  /\ hist # <<>>
  /\ (IsFs(1, "rename_ok") \/ IsFs(1, "rename_notfound"))

(* C4: a cut-paste of one regular file whose rename succeeds, or finds the *)
(* source gone, sends exactly one Succ, no New, no Adv and no operation.   *)
C4_RenameFastPath ==
  RenameEnded =>
    /\ prog = <<Succ(req.id)>>
    /\ macro_ = <<>>
    /\ \A i \in Hx : hist[i].k \notin {"send", "recv"}
    /\ plan.pc = "done"

C4_Witness == RenameEnded /\ IsFs(1, "rename_notfound") /\ prog # <<>>

----------------------------------------------------------------------------
\* The receive that opened the consumer turn a history entry belongs to.
RECURSIVE LastRecv(_)
LastRecv(i) == IF i = 0 \/ hist[i].k = "recv" THEN i ELSE LastRecv(i - 1)
TurnStart(i) == LastRecv(i)

GoneDelete(i) ==
  /\ IsRet(i, "Delete")
  /\ hist[i].end.rm = "notfound" /\ hist[i].end.sm = "err"

(* C5: a DeleteEntry whose target is gone (remove_file: not found, and no  *)
(* link metadata left) ends in success: Adv(id, 1, length), no Fail, no    *)
(* error returned.                                                         *)
C5_VanishedDeleteSucceeds ==
  \A i \in Hx :
    GoneDelete(i) =>
      /\ hist[i].res = "ok"
      /\ hist[i - 1] = Send(Adv(hist[i].op.id, 1, hist[i].op.length))
      /\ \A m \in TurnStart(i)..i : ~IsEv(m, "Fail")
      /\ i < Len(hist) => ~(IsEv(i + 1, "Fail") /\ hist[i + 1].ev.msg = "Failed to work on this task")

C5_Witness == \E i \in Hx : GoneDelete(i)

----------------------------------------------------------------------------
TierOf(kind) ==
  CASE kind = "Paste" -> LOW [] kind = "Trash" -> LOW
    [] kind = "Link" -> NORMAL [] kind = "Delete" -> NORMAL

(* C7: every send, a retry's included, carries the tier of its variant:    *)
(* PasteChunk and TrashEntry low, LinkCreate and DeleteEntry elevated.     *)
C7_TierByVariant ==
  /\ \A i \in Hx : hist[i].k = "send" => hist[i].pri = TierOf(hist[i].op.kind)
  /\ \A i \in 1..Len(macro_) : macro_[i].pri = TierOf(macro_[i].op.kind)

C7_Witness ==
  /\ \E i \in Hx : IsSend(i, "Paste") /\ hist[i].op.retry > 0
  /\ \E i \in Hx : IsSend(i, "Link")

----------------------------------------------------------------------------
(* C8: along the sends of one PasteChunk, retry_count starts at the        *)
(* request's value, grows by exactly one per re-send, and never exceeds    *)
(* bizarre_retry.                                                          *)
C8_RetryCount ==
  /\ \A i \in Hx :
       IsSend(i, "Paste") =>
         /\ hist[i].op.retry <= bizarre_retry
         /\ hist[i].op.retry =
              Cardinality({j \in 1..(i - 1) :
                             IsSend(j, "Paste") /\ hist[j].op.to = hist[i].op.to})
  /\ \A i \in Hx :
       (IsSend(i, "Paste") /\ hist[i].op.retry > 0) =>
         /\ \E j \in 1..(i - 1) : hist[j].k = "recv"
         /\ hist[TurnStart(i)].op = [hist[i].op EXCEPT !.retry = @ - 1]
  /\ \A i \in 1..Len(macro_) :
       macro_[i].op.kind = "Paste" => macro_[i].op.retry <= bizarre_retry

C8_Witness ==
  \E i \in Hx : IsSend(i, "Paste") /\ hist[i].op.retry = MaxRetry

----------------------------------------------------------------------------
Created(d, i) == \E j \in 1..(i - 1) : IsFs(j, "create_dir") /\ hist[j].path = d
\* The source directory mirrored at destination d.
SrcOf(d) == req.from \o SubSeq(d, Len(req.to) + 1, Len(d))

(* C9: in the paste walk a destination directory is created (or found)     *)
(* before any child directory of it is created and before any operation    *)
(* into it is sent; a source directory whose destination could not be      *)
(* created has no entry read or scheduled and no sub-directory visited.    *)
C9_ParentBeforeChild ==
  PasteWalk =>
    \A i \in Hx :
      /\ (hist[i].k = "fs" /\ hist[i].call \in {"create_dir", "create_dir_err"}
            /\ hist[i].path # req.to)
           => Created(Front(hist[i].path), i)
      /\ hist[i].k = "send" => Created(Front(hist[i].op.to), i)
      /\ IsFs(i, "create_dir_err") =>
           \A j \in Hx :
             /\ hist[j].k = "send" => ~IsPrefix(SrcOf(hist[i].path), hist[j].op.from)
             /\ (hist[j].k = "fs" /\ hist[j].call \in {"read_dir_ok", "read_dir_err"})
                  => ~IsPrefix(SrcOf(hist[i].path), hist[j].path)
             /\ (hist[j].k = "fs" /\ hist[j].call \in {"metadata_ok", "metadata_err"})
                  => ~IsPrefix(SrcOf(hist[i].path), Front(hist[j].path))
             /\ (hist[j].k = "fs" /\ hist[j].call \in {"create_dir", "create_dir_err"}
                   /\ j # i)
                  => ~IsPrefix(hist[i].path, hist[j].path)

C9_Witness ==
  /\ PasteWalk
  /\ \E i \in Hx : IsFs(i, "create_dir_err") /\ hist[i].path = MirrorDest(DstRoot, PathE, 2)
  /\ \E i \in Hx : hist[i].k = "send" /\ Front(hist[i].op.to) = MirrorDest(DstRoot, PathD, 2)

----------------------------------------------------------------------------
DirError(i) == IsFs(i, "create_dir_err") \/ IsFs(i, "read_dir_err")
\* A sub-directory the walk met, and whether it has been visited since.
Pushed(i) ==
  IsFs(i, "metadata_ok") /\ metadata(fs, hist[i].path, req.follow).kind = "dir"
Visited(src) ==
  \E j \in Hx :
    /\ hist[j].k = "fs" /\ hist[j].call \in {"create_dir", "create_dir_err"}
    /\ hist[j].path = MirrorDest(req.to, src, Len(req.from))
Pending(src) == \E k \in 1..Len(plan.dirs) : plan.dirs[k] = src

(* C10: in the paste walk every directory-level error (create_dir fails    *)
(* other than already-exists, read_dir fails) is followed by New(id, 0)    *)
(* and Fail(id, message); no pending directory is lost to it; once the     *)
(* queue is drained one final Succ(id) is sent, whatever failed.           *)
C10_DirErrorsContinue ==
  PasteWalk =>
    /\ \A i \in Hx :
         DirError(i) =>
           /\ i + 2 <= Len(hist)
           /\ hist[i + 1] = Send(New(req.id, 0))
           /\ IsEv(i + 2, "Fail") /\ hist[i + 2].ev.id = req.id
    /\ \A i \in Hx : Pushed(i) => (Visited(hist[i].path) \/ Pending(hist[i].path))
    /\ plan.pc \in {"paste", "done"}
    /\ plan.pc = "paste" => (plan.dirs # <<>> /\ CountEv("Succ", req.id) = 0)
    /\ plan.pc = "done" =>
         /\ plan.dirs = <<>>
         /\ CountEv("Succ", req.id) = 1
         /\ \E i \in Hx :
              /\ hist[i] = Send(Succ(req.id))
              /\ \A j \in Hx : (hist[j].k = "fs" /\ hist[j].call \in
                    {"create_dir", "create_dir_err", "read_dir_ok", "read_dir_err",
                     "metadata_ok", "metadata_err"}) => j < i

C10_Witness ==
  /\ PasteWalk /\ plan.pc = "done"
  /\ \E i \in Hx : IsFs(i, "create_dir_err") /\ \E j \in Hx : j > i /\ IsFs(j, "read_dir_err")
----------------------------------------------------------------------------
\* The events a consumer turn sent, from its receive to its return.
Turn(i) == TurnStart(i)..i

(* C11: executing a DeleteEntry is fatal (a Fail event, an error returned,  *)
(* no Adv) whenever the removal fails with an error other than not-found,   *)
(* and whenever it fails with not-found while link metadata is still found  *)
(* at the target; in every other case it sends Adv(id, 1, length).          *)
C11_DeleteFatalCases ==
  \A i \in Hx :
    IsRet(i, "Delete") =>
      IF \/ hist[i].end.rm = "err"
         \/ (hist[i].end.rm = "notfound" /\ hist[i].end.sm = "ok")
      THEN /\ hist[i].res = "err"
           /\ \E m \in Turn(i) : IsEv(m, "Fail")
           /\ \A m \in Turn(i) : ~IsEv(m, "Adv")
      ELSE /\ hist[i].res = "ok"
           /\ hist[i - 1] = Send(Adv(hist[i].op.id, 1, hist[i].op.length))
----------------------------------------------------------------------------
\* The sends of the planner (a retry is the executor's).
PlanSends == {i \in Hx : hist[i].k = "send" /\ ~(IsSend(i, "Paste") /\ hist[i].op.retry > 0)}
EvAt(t) == {i \in Hx : IsEv(i, t)}
RenameTaken == hist # <<>> /\ (IsFs(1, "rename_ok") \/ IsFs(1, "rename_notfound"))
\* The leaf operation the claim gives an entry of the metadata read.
LeafKind(meta) == IF meta.kind = "symlink" THEN "Link" ELSE "Paste"
\* paste() of a source that is not a directory has returned, not by a rename.
PasteSingle ==
  /\ req.kind = "Paste" /\ plan.pc = "done" /\ ~RenameTaken
  /\ metadata(fs, req.from, req.follow).kind # "dir"
\* A non-directory entry the paste walk has read.
WalkEntry(i) ==
  /\ PasteWalk /\ IsFs(i, "metadata_ok")
  /\ metadata(fs, hist[i].path, req.follow).kind # "dir"

(* C12: paste() of a source that is not a directory (no rename fast path)   *)
(* sends New(id, total_bytes), then exactly one leaf operation (a           *)
(* PasteChunk for a regular file, a LinkCreate for a symlink), then         *)
(* Succ(id), whatever the kind of the entry; and every non-directory entry  *)
(* met in a directory walk gets one New and one send.                       *)
C12_OneNewOneSend ==
  /\ PasteSingle =>
       LET meta == metadata(fs, req.from, req.follow)
       IN /\ Cardinality(EvAt("New")) = 1 /\ Cardinality(PlanSends) = 1
          /\ Cardinality(EvAt("Succ")) = 1
          /\ \E n \in EvAt("New"), e \in PlanSends, k \in EvAt("Succ") :
               /\ n < e /\ e < k
               /\ hist[n] = Send(New(req.id, meta.len))
               /\ hist[e].op.kind = LeafKind(meta)
               /\ hist[e].op.from = req.from /\ hist[e].op.to = req.to
  /\ \A i \in Hx :
       WalkEntry(i) =>
         LET meta == metadata(fs, hist[i].path, req.follow)
         IN /\ i + 2 <= Len(hist)
            /\ hist[i + 1] = Send(New(req.id, meta.len))
            /\ hist[i + 2].k = "send"
            /\ hist[i + 2].op.kind = LeafKind(meta)
            /\ hist[i + 2].op.from = hist[i].path
            /\ Cardinality({e \in PlanSends : hist[e].op.from = hist[i].path}) = 1
----------------------------------------------------------------------------
\* A PasteChunk attempt whose copy stream ended in an error other than
\* not-found.
CopyFailed(i) ==
  /\ IsRet(i, "Paste")
  /\ hist[i].end \in CopyErrors /\ ~IsNotFound(hist[i].end)
Retryable(i) ==
  /\ raw_os_error(hist[i].end) \in {1, 93}
  /\ hist[i].op.retry < bizarre_retry
ConsumerFail(i) ==
  /\ i <= Len(hist) /\ IsEv(i, "Fail")
  /\ hist[i].ev.msg = "Failed to work on this task"

(* C13: a PasteChunk whose copy fails with OS error 1 or 93 while           *)
(* retry_count is below the maximum sends a Log event, re-sends the same    *)
(* operation with retry_count + 1 at the low tier and ends the attempt      *)
(* with no Fail, no error returned and no Adv(id, 1, 0); with any other     *)
(* error (not-found aside), or at the maximum, the error is returned and    *)
(* nothing is re-sent.                                                      *)
C13_RetryOrPropagate ==
  \A i \in Hx :
    CopyFailed(i) =>
      IF Retryable(i)
      THEN /\ hist[i].res = "ok"
           /\ IsEv(i - 2, "Log") /\ hist[i - 2].ev.id = hist[i].op.id
           /\ hist[i - 1] = Enq([hist[i].op EXCEPT !.retry = @ + 1], LOW)
           /\ Cardinality({m \in Turn(i) : hist[m].k = "send"}) = 1
           /\ \A m \in Turn(i) :
                ~IsEv(m, "Fail") /\ hist[m] # Send(Adv(hist[i].op.id, 1, 0))
           /\ ~ConsumerFail(i + 1)
      ELSE /\ hist[i].res = "err"
           /\ \A m \in Turn(i) : hist[m].k # "send" /\ ~IsEv(m, "Log")

C13_Witness ==
  /\ \E i \in Hx : CopyFailed(i) /\ Retryable(i) /\ hist[i].end = "ENOATTR"
  /\ \E i \in Hx : CopyFailed(i) /\ ~Retryable(i) /\ hist[i].op.retry = MaxRetry
----------------------------------------------------------------------------
RenameCalls ==
  {i \in Hx : hist[i].k = "fs" /\
               hist[i].call \in {"rename_ok", "rename_notfound", "rename_err"}}
CutPasteOfDir ==
  req.kind = "Paste" /\ req.cut /\ fs[req.from].kind = "dir" /\ plan.pc = "done"

(* C14 as stated: paste() attempts the rename only when cut is true and    *)
(* the source is not a directory; a cut-paste of a directory always goes   *)
(* through the directory walk.                                             *)
C14_RenameOnlyNonDir ==
  /\ RenameCalls # {} => (req.cut /\ fs[req.from].kind # "dir")
  /\ CutPasteOfDir => PasteWalk

(* C14 amended: paste() attempts the rename exactly when cut is true,      *)
(* whatever the kind of the source, once and before anything else; a       *)
(* cut-paste of a directory ends with that rename when it succeeds or      *)
(* finds the source gone, and goes through the directory walk exactly      *)
(* when the rename fails with another error.                               *)
C14_RenameWheneverCut ==
  /\ (req.kind = "Paste" /\ plan.pc # "new") =>
       RenameCalls = (IF req.cut THEN {1} ELSE {})
  /\ req.kind # "Paste" => RenameCalls = {}
  /\ CutPasteOfDir =>
       /\ RenameTaken => (prog = <<Succ(req.id)>> /\ Len(hist) = 2 /\ ~PasteWalk)
       /\ IsFs(1, "rename_err") => PasteWalk

C14_Witness == CutPasteOfDir /\ IsFs(1, "rename_ok") /\ prog = <<Succ(req.id)>>
----------------------------------------------------------------------------
\* A PasteChunk attempt whose copy stream reported not-found.
Vanished(i) == IsRet(i, "Paste") /\ hist[i].end \in CopyErrors /\ IsNotFound(hist[i].end)
\* What such an attempt leaves alone: no Fail, no error, no re-send, the
\* source not removed.
StopsCleanly(i) ==
  /\ hist[i].res = "ok"
  /\ ~ConsumerFail(i + 1)
  /\ \A m \in Turn(i) :
       /\ ~IsEv(m, "Fail")
       /\ hist[m].k # "send"
       /\ ~(hist[m].k = "fs" /\ hist[m].path = hist[i].op.from)

(* C15: when the source of a PasteChunk vanishes mid-copy, the executor     *)
(* sends a Log event for the task, stops the copy, sends no Fail, returns   *)
(* no error, does not re-send the operation and does not remove the         *)
(* source, even when cut is true.                                           *)
C15_VanishedSourceLogged ==
  \A i \in Hx :
    Vanished(i) =>
      /\ StopsCleanly(i)
      /\ \E m \in Turn(i) : IsEv(m, "Log") /\ hist[m].ev.id = hist[i].op.id
----------------------------------------------------------------------------
\* delete() of a directory, its metadata read, is in or past the walk.
DeleteWalk == req.kind = "Delete" /\ plan.pc \in {"delete", "done"} /\ fs[req.target].kind = "dir"
\* A history entry written by a consumer turn (the others are the planner's).
ExecEntry(j) ==
  \/ hist[j].k \in {"recv", "ret"}
  \/ \E r \in 1..(j - 1) : hist[r].k = "recv" /\ \A m \in r..(j - 1) : hist[m].k # "ret"
  \/ (j > 1 /\ hist[j - 1].k = "ret" /\ ConsumerFail(j))
Noise(j) == j <= Len(hist) /\ (IsEv(j, "New") \/ IsEv(j, "Fail") \/ IsEv(j, "Log"))
DirPushed(i) == IsFs(i, "metadata_ok") /\ fs[hist[i].path].kind = "dir"
DirRead(d) ==
  \E j \in Hx : hist[j].k = "fs" /\ hist[j].call \in {"read_dir_ok", "read_dir_err"}
                   /\ hist[j].path = d

(* C16: in delete() of a directory, a directory that cannot be listed and  *)
(* an entry whose metadata cannot be read are skipped with no New, Fail or *)
(* Log event and nothing sent for them; every other pending directory is   *)
(* still visited and the walk ends with exactly one Succ(id).              *)
C16_DeleteSkipsSilently ==
  DeleteWalk =>
    /\ \A i \in Hx :
         IsFs(i, "read_dir_err") =>
           /\ ~Noise(i + 1)
           /\ \A j \in Hx :
                /\ hist[j].k = "send" => ~IsPrefix(hist[i].path, hist[j].op.target)
                /\ (hist[j].k = "fs" /\ ~ExecEntry(j))
                     => ~IsPrefix(hist[i].path, Front(hist[j].path))
    /\ \A i \in Hx :
         IsFs(i, "metadata_err") =>
           /\ ~Noise(i + 1)
           /\ \A j \in Hx :
                /\ hist[j].k = "send" => ~IsPrefix(hist[i].path, hist[j].op.target)
                /\ (hist[j].k = "fs" /\ j # i /\ ~ExecEntry(j))
                     => ~IsPrefix(hist[i].path, hist[j].path)
    /\ \A j \in Hx : (IsEv(j, "Fail") \/ IsEv(j, "Log")) => ExecEntry(j)
    /\ \A j \in Hx : IsEv(j, "New") => (j < Len(hist) /\ IsSend(j + 1, "Delete"))
    /\ \A i \in Hx : DirPushed(i) => (DirRead(hist[i].path) \/ Pending(hist[i].path))
    /\ plan.pc = "delete" => (plan.dirs # <<>> /\ CountEv("Succ", req.id) = 0)
    /\ plan.pc = "done" =>
         /\ plan.dirs = <<>>
         /\ CountEv("Succ", req.id) = 1
         /\ \E k \in Hx :
              /\ hist[k] = Send(Succ(req.id))
              /\ \A j \in Hx : j > k => ExecEntry(j)

C16_Witness ==
  /\ DeleteWalk /\ plan.pc = "done"
  /\ \E i \in Hx : IsFs(i, "read_dir_err") /\ hist[i].path = PathD
  /\ \E i \in Hx : IsFs(i, "read_dir_ok") /\ hist[i].path = PathE
  /\ \E i \in Hx : IsFs(i, "metadata_err") /\ hist[i].path = PathG
----------------------------------------------------------------------------
(* Reading the calls of a run of remove_empty_dirs.                        *)

PLx == 1..Len(prune.log)
PIs(i, call) == prune.log[i].call = call
PRm(i) == PIs(i, "remove_dir_ok") \/ PIs(i, "remove_dir_err")
Below(d, p) == IsPrefix(d, p) /\ d # p
PruneDone == prune.stack = <<>> /\ prune.log # <<>>
PruneSubDirs == {d \in DOMAIN prune.tree : prune.tree[d].kind = "dir" /\ d # PruneRoot}
PListed(d) == \E i \in PLx : PIs(i, "read_dir_ok") /\ prune.log[i].path = d
PAttempts(d) == {i \in PLx : PRm(i) /\ prune.log[i].path = d}
PostOrder ==
  \A i \in PLx, j \in PLx :
    (PRm(i) /\ PRm(j) /\ Below(prune.log[i].path, prune.log[j].path)) => j < i

(* C17 as stated: the removal attempt on a sub-directory comes after those *)
(* on its descendants, the attempt on the root comes last and is made in   *)
(* every run, and no removal or listing error stops the traversal of the   *)
(* remaining sibling directories.                                          *)
C17_PostOrderEveryRun ==
  /\ PostOrder
  /\ PruneDone =>
       /\ PRm(Len(prune.log)) /\ Last(prune.log).path = PruneRoot
       /\ \A d \in PruneSubDirs :
            (PListed(Front(d)) /\ FsOp("file_type_err", d) \notin Range(prune.log))
              => PAttempts(d) # {}

(* C17 amended: post-order as stated; when the root can be listed, the     *)
(* attempt on the root is made, once, as the last call of the run, and     *)
(* when it cannot nothing else is called; every sub-directory a listing    *)
(* yields is traversed and gets its removal attempt, whatever failed       *)
(* before it or below it, while an entry the listing did not yield (a      *)
(* next_entry error ends the listing) is not touched.                      *)
C17_PostOrderWhenListed ==
  /\ PostOrder
  /\ PruneDone =>
       IF PListed(PruneRoot)
       THEN /\ PRm(Len(prune.log))
            /\ PAttempts(PruneRoot) = {Len(prune.log)}
       ELSE prune.log = <<FsOp("read_dir_err", PruneRoot)>>
  /\ \A i \in PLx :
       (PruneDone /\ PIs(i, "file_type_ok") /\ prune.tree[prune.log[i].path].kind = "dir")
         => \E j \in PAttempts(prune.log[i].path) : j > i
  /\ \A d \in PruneSubDirs :
       (\A i \in PLx : ~(PIs(i, "file_type_ok") /\ prune.log[i].path = d))
         => \A i \in PLx : PIs(i, "file_type_err") \/ ~IsPrefix(d, prune.log[i].path)

C17_Witness ==
  /\ PruneDone
  /\ \E i \in PLx : /\ PIs(i, "read_dir_err") /\ prune.log[i].path = PruneX
                     /\ \E j \in PAttempts(PruneY) : j > i
  /\ PAttempts(PruneRoot) # {}
----------------------------------------------------------------------------
\* The step is a call of push, of the value v.
PushOf(v) ==
  /\ Len(notify'.pushes) = Len(notify.pushes) + 1
  /\ Last(notify'.pushes).v = v

(* C18: push appends the message at the end of the pending list and raises *)
(* one refresh signal; with no message pending its timeout is unchanged,   *)
(* with messages pending it grows by exactly now minus the creation        *)
(* instant of the first pending message; a value that does not convert     *)
(* changes nothing and raises no signal.                                   *)
C18_PushExtendsTimeout ==
  [][\A v \in NotifyInputs :
       PushOf(v) =>
         IF v.ok
         THEN /\ Len(notify'.messages) = Len(notify.messages) + 1
              /\ SubSeq(notify'.messages, 1, Len(notify.messages)) = notify.messages
              /\ notify'.emits = notify.emits + 1
              /\ Last(notify'.messages).timeout =
                   IF notify.messages = <<>> THEN v.timeout
                   ELSE v.timeout + (notify'.now - notify.messages[1].instant)
         ELSE /\ notify'.messages = notify.messages
              /\ notify'.emits = notify.emits
              /\ notify'.now = notify.now]_vars

C18_Witness ==
  /\ Len(notify.messages) = 3
  /\ notify.messages[1].instant = 0 /\ notify.messages[2].instant = 1
  /\ notify.messages[3].timeout > notify.pushes[3].v.timeout + 1
  /\ notify.pushes[3].v.ok
----------------------------------------------------------------------------
\* The bytes a leaf operation was registered with, where it carries them.
Registered(e) ==
  /\ e > 1 /\ IsEv(e - 1, "New") /\ hist[e - 1].ev.id = hist[e].op.id
  /\ hist[e].op.kind \in {"Delete", "Trash"} => hist[e - 1].ev.bytes = hist[e].op.length
  /\ hist[e].op.kind = "Link" => hist[e - 1].ev.bytes = hist[e].op.meta.len
\* The operation as the planner sent it (a re-sent PasteChunk counts retries).
AsPlanned(op) == IF op.kind = "Paste" THEN [op EXCEPT !.retry = 0] ELSE op

(* C19: in paste, link, delete and trash the New event that accounts for   *)
(* a leaf operation is sent before the operation is enqueued, and the      *)
(* planner's Succ only after its last enqueue; so every Adv of a leaf      *)
(* operation comes after the New that accounts for it.                     *)
C19_NewBeforeSend ==
  LET sent == PlanSends
  IN /\ \A e \in sent : Registered(e)
     /\ \A k \in EvAt("Succ") : \A e \in sent : e < k
     /\ plan.pc \in {"paste", "delete"} => EvAt("Succ") = {}
     /\ \A a \in EvAt("Adv") :
          LET r == TurnStart(a)
          IN /\ r >= 1
             /\ \E e \in sent :
                  /\ e < r
                  /\ hist[e].op = AsPlanned(hist[r].op)
                  /\ IsEv(e - 1, "New") /\ hist[e - 1].ev.id = hist[a].ev.id

C19_Witness ==
  /\ DeleteWalk /\ plan.pc = "done" /\ Cardinality(PlanSends) >= 2
  /\ \E a \in EvAt("Adv") : hist[TurnStart(a)].op.kind = "Delete"
----------------------------------------------------------------------------
\* The removals of the source that the attempt ending at i made.
SrcRemovals(i) ==
  {m \in Turn(i) : hist[m].k = "fs" /\ hist[m].call \in {"remove_file", "remove_file_err"}
                     /\ hist[m].path = hist[i].op.from}
ChunkAdvs(i) == {m \in Turn(i) : IsEv(m, "Adv") /\ hist[m].ev.files = 0}
MovedPaste(i) == IsRet(i, "Paste") /\ hist[i].op.cut /\ hist[i].end = "eof"
MovedLink(i) == IsRet(i, "Link") /\ hist[i].op.delete /\ hist[i].end = "done"

(* C20: a move never destroys the source before the destination is         *)
(* written: a PasteChunk with cut removes the source only after the copy   *)
(* stream's terminating zero-length signal, never on the vanished-source,  *)
(* retry or fatal paths; a LinkCreate with delete_source removes the       *)
(* original only after the symlink has been created; nothing else removes  *)
(* a source.                                                               *)
C20_SourceRemovedLast ==
  /\ \A i \in Hx :
       IsRet(i, "Paste") =>
         LET r == TurnStart(i)
             gone == SrcRemovals(i)
         IN /\ gone # {} <=> MovedPaste(i)
            /\ Cardinality(gone) <= 1
            /\ \A m \in gone :
                 /\ \A a \in ChunkAdvs(i) : a < m
                 /\ SumSeq([k \in 1..(m - 1 - r) |->
                              IF IsEv(r + k, "Adv") THEN hist[r + k].ev.bytes ELSE 0])
                      = CopyLen(fs, hist[i].op.from)
  /\ \A i \in Hx :
       IsRet(i, "Link") =>
         LET gone == SrcRemovals(i)
         IN /\ gone # {} <=> MovedLink(i)
            /\ \A m \in gone :
                 \E c \in Turn(i) :
                   c < m /\ IsFs(c, "symlink_ok") /\ hist[c].path = hist[i].op.to
  /\ \A m \in Hx :
       (hist[m].k = "fs" /\ hist[m].call \in {"remove_file", "remove_file_err"})
         => ExecEntry(m)

C20_Witness ==
  /\ \E i \in Hx : MovedPaste(i) /\ SrcRemovals(i) # {}
  /\ \E i \in Hx : MovedLink(i) /\ SrcRemovals(i) # {}
====
